---------------------------- MODULE Spec2Model ----------------------------
(***************************************************************************)
(* A model of src/src/spreadsheet_compressor/compressor.py: the value      *)
(* classifier (recognize_data_type), the reference compressor              *)
(* (compress_cell_references), the grid walker (_process_cells) and the    *)
(* aggregators (parse_excel, parse_ods, parse_csv).                        *)
(*                                                                         *)
(* A Python str is a sequence of one-character strings, <<"A", "1">> for   *)
(* "A1".  A Python value handed to compress_cell_references is tagged:     *)
(* [t |-> "pair", v |-> <<sheet, cell>>] for a (sheet, cell) pair and      *)
(* [t |-> "str", v |-> chars] for a str, because the code indexes and      *)
(* unpacks both.                                                           *)
(***************************************************************************)
EXTENDS Integers, Sequences, FiniteSets, TLC

VARIABLES
    pc,          \* position of the run: which operation has been applied
    references,  \* the argument of compress_cell_references
    result,      \* its outcome: [raised |-> BOOLEAN, value |-> list of str]
    groups,      \* ghost: for each returned string, the references the scan put in it
    result2,     \* outcome of compressing again the cells the first output denotes
    config,      \* constructor arguments: [custom_patterns |-> list of [name, regex]]
    value,       \* the argument of recognize_data_type
    dtype,       \* its return value
    document,    \* the sheets a back-end yields: list of [name, cells]
    output       \* what a parse_* call returns: [raised, value |-> list of [key, refs]]

vars == <<pc, references, result, groups, result2, config, value, dtype,
          document, output>>

-----------------------------------------------------------------------------
(* Python str primitives *)

UpperLetters == <<"A","B","C","D","E","F","G","H","I","J","K","L","M",
                  "N","O","P","Q","R","S","T","U","V","W","X","Y","Z">>

LowerLetters == <<"a","b","c","d","e","f","g","h","i","j","k","l","m",
                  "n","o","p","q","r","s","t","u","v","w","x","y","z">>

DigitChars == <<"0","1","2","3","4","5","6","7","8","9">>

Range(s) == {s[i] : i \in DOMAIN s}

UpperSet == Range(UpperLetters)

LowerSet == Range(LowerLetters)

DigitSet == Range(DigitChars)

WhitespaceSet == {" ", "\t", "\n", "\r"}

\* The characters of the model in code-point order (str comparison is by code point).
AsciiChars == <<"\t", "\n", "\r", " ", "!", "$", "%", "+", ",", "-", ".", "/">>
              \o DigitChars \o <<":", "@">> \o UpperLetters \o <<"_">> \o LowerLetters

OrdTable == [c \in Range(AsciiChars) |-> CHOOSE i \in DOMAIN AsciiChars : AsciiChars[i] = c]

Ord(c) == OrdTable[c]

isalpha(c) == c \in UpperSet \/ c \in LowerSet

isdigit(c) == c \in DigitSet

UpperTable == [c \in UpperSet \cup LowerSet |->
                 IF c \in UpperSet THEN c
                 ELSE UpperLetters[CHOOSE i \in 1..26 : LowerLetters[i] = c]]

upper(s) == [i \in DOMAIN s |-> IF isalpha(s[i]) THEN UpperTable[s[i]] ELSE s[i]]

LetterIndexTable == [c \in UpperSet |-> CHOOSE i \in 1..26 : UpperLetters[i] = c]

DigitValTable == [c \in DigitSet |-> (CHOOSE i \in 1..10 : DigitChars[i] = c) - 1]

\* int(s) for a str of decimal digits
RECURSIVE int(_)
int(s) == IF s = <<>> THEN 0
          ELSE 10 * int(SubSeq(s, 1, Len(s) - 1)) + DigitValTable[s[Len(s)]]

\* str(n) for n >= 0
RECURSIVE str(_)
str(n) == IF n < 10 THEN <<DigitChars[n + 1]>>
          ELSE str(n \div 10) \o <<DigitChars[(n % 10) + 1]>>

\* a < b for two str (lexicographic, by code point)
RECURSIVE StrLess(_, _)
StrLess(a, b) ==
    IF b = <<>> THEN FALSE
    ELSE IF a = <<>> THEN TRUE
    ELSE IF a[1] = b[1] THEN StrLess(Tail(a), Tail(b))
    ELSE Ord(a[1]) < Ord(b[1])

-----------------------------------------------------------------------------
(* openpyxl.utils.cell, as the code calls it *)

\* column_index_from_string raises ValueError unless the upper-cased text is A..ZZZ
ColumnNameValid(col_str) ==
    /\ Len(col_str) \in 1..3
    /\ \A i \in DOMAIN col_str : isalpha(col_str[i])

RECURSIVE ColumnValue(_)
ColumnValue(s) == IF s = <<>> THEN 0
                  ELSE 26 * ColumnValue(SubSeq(s, 1, Len(s) - 1))
                       + LetterIndexTable[s[Len(s)]]

column_index_from_string(col_str) == ColumnValue(upper(col_str))

\* get_column_letter(idx), 1 <= idx <= 18278
RECURSIVE get_column_letter(_)
get_column_letter(idx) ==
    IF idx <= 26 THEN <<UpperLetters[idx]>>
    ELSE get_column_letter((idx - 1) \div 26) \o <<UpperLetters[((idx - 1) % 26) + 1]>>

-----------------------------------------------------------------------------
(* Python values the compressor receives *)

Pair(sheet, cell) == [t |-> "pair", v |-> <<sheet, cell>>]

Str(chars) == [t |-> "str", v |-> chars]

\* len(x)
PyLen(x) == Len(x.v)

\* x[i] of the code (0-based there, 1-based here); a str yields a one-character str
PyItem(x, i) == IF x.t = "str" THEN <<x.v[i]>> ELSE x.v[i]

\* "a, b = x" succeeds only when x has exactly two items
UnpackOk(x) == PyLen(x) = 2

_cell_to_tuple(cell_ref) ==
    LET col_str == SelectSeq(cell_ref, isalpha)
        row_str == SelectSeq(cell_ref, isdigit)
    IN  <<col_str, IF row_str # <<>> THEN int(row_str) ELSE 0>>

-----------------------------------------------------------------------------
(* compress_cell_references *)

\* The sort key of lines 161-167 can be computed: x[0] and x[1] exist and
\* column_index_from_string accepts the letters of x[1].
SortKeyOk(x) ==
    /\ PyLen(x) >= 2
    /\ ColumnNameValid(_cell_to_tuple(PyItem(x, 2))[1])

SortKey(x) ==
    <<PyItem(x, 1),
      column_index_from_string(_cell_to_tuple(PyItem(x, 2))[1]),
      _cell_to_tuple(PyItem(x, 2))[2]>>

\* k1 < k2 for two key tuples (sheet, column number, row number)
KeyLess(k1, k2) ==
    \/ StrLess(k1[1], k2[1])
    \/ /\ k1[1] = k2[1]
       /\ \/ k1[2] < k2[2]
          \/ k1[2] = k2[2] /\ k1[3] < k2[3]

\* the greatest position of a set of positions, 0 when there is none
LastOf(positions) ==
    IF positions = {} THEN 0 ELSE CHOOSE i \in positions : \A j \in positions : j <= i

InsertAfter(s, n, x) == SubSeq(s, 1, n) \o <<x>> \o SubSeq(s, n + 1, Len(s))

\* x placed behind every element whose key is not greater: sorted() is stable
InsertSorted(s, x) ==
    InsertAfter(s, LastOf({i \in DOMAIN s : ~KeyLess(SortKey(x), SortKey(s[i]))}), x)

RECURSIVE sorted(_)
sorted(refs) ==
    IF refs = <<>> THEN <<>>
    ELSE InsertSorted(sorted(SubSeq(refs, 1, Len(refs) - 1)), refs[Len(refs)])

_format_range(start_sheet, start_cell, end_cell) ==
    IF start_cell = end_cell THEN start_sheet \o <<"!">> \o start_cell
    ELSE start_sheet \o <<"!">> \o start_cell \o <<":">> \o end_cell

\* a scan that never compares the sheets
SameSheetIgnored(sheet, current_range_start_sheet) == TRUE

\* line 188
SameSheet(sheet, current_range_start_sheet) == sheet = current_range_start_sheet

\* a scan that extends the range over a gap: any later row or column continues it
AdjacentSkipsGap(cell, current_range_end_cell) ==
    LET e == _cell_to_tuple(current_range_end_cell)
        c == _cell_to_tuple(cell)
    IN  \/ c[1] = e[1] /\ c[2] > e[2]
        \/ /\ c[2] = e[2]
           /\ column_index_from_string(c[1]) > column_index_from_string(e[1])

\* a scan that lacks the horizontal test of lines 191-193
AdjacentVerticalOnly(cell, current_range_end_cell) ==
    LET e == _cell_to_tuple(current_range_end_cell)
        c == _cell_to_tuple(cell)
    IN  c[1] = e[1] /\ c[2] = e[2] + 1

\* lines 189-193: the cell continues the open range downwards or to the right
Adjacent(cell, current_range_end_cell) ==
    LET e == _cell_to_tuple(current_range_end_cell)
        c == _cell_to_tuple(cell)
    IN  \/ c[1] = e[1] /\ c[2] = e[2] + 1
        \/ /\ c[2] = e[2]
           /\ column_index_from_string(c[1]) = column_index_from_string(e[1]) + 1

\* The state of the scan: the code's current_range_* variables and ranges, and
\* the ghosts members (references put in the open range) and groups (those of
\* each flushed range).
OpenRange(x) ==
    [start_sheet |-> PyItem(x, 1), start_cell |-> PyItem(x, 2),
     end_sheet |-> PyItem(x, 1), end_cell |-> PyItem(x, 2),
     ranges |-> <<>>, members |-> <<x>>, groups |-> <<>>]

Flush(st) ==
    [st EXCEPT !.ranges = Append(@, _format_range(st.start_sheet, st.start_cell,
                                                  st.end_cell)),
               !.groups = Append(@, st.members)]

\* one iteration of the loop of lines 182-220
ScanStep(st, x) ==
    IF SameSheet(PyItem(x, 1), st.start_sheet) /\ Adjacent(PyItem(x, 2), st.end_cell)
    THEN [st EXCEPT !.end_cell = PyItem(x, 2), !.members = Append(@, x)]
    ELSE [Flush(st) EXCEPT !.start_sheet = PyItem(x, 1), !.start_cell = PyItem(x, 2),
                           !.end_sheet = PyItem(x, 1), !.end_cell = PyItem(x, 2),
                           !.members = <<x>>]

RECURSIVE ScanLoop(_, _, _)
ScanLoop(sorted_refs, i, st) ==
    IF i > Len(sorted_refs) THEN st
    ELSE ScanLoop(sorted_refs, i + 1, ScanStep(st, sorted_refs[i]))

\* line 232: an exception left the try block
Raised == [exc |-> TRUE, ranges |-> <<>>, groups |-> <<>>]

\* line 230: the try block ran to its return
Returned(st) == [exc |-> FALSE, ranges |-> st.ranges, groups |-> st.groups]

\* lines 170-230: the scan of the sorted references, the unpacking of lines 174
\* and 183 raising on a reference that is not a pair
Scan(sorted_refs) ==
    IF \E i \in DOMAIN sorted_refs : ~UnpackOk(sorted_refs[i])
    THEN Raised
    ELSE Returned(Flush(ScanLoop(sorted_refs, 2, OpenRange(sorted_refs[1]))))

\* The try block, lines 157-230.
TryBody(refs) ==
    IF \E i \in DOMAIN refs : ~SortKeyOk(refs[i]) THEN Raised ELSE Scan(sorted(refs))

\* line 235
Fallback(refs) ==
    IF \E i \in DOMAIN refs : PyLen(refs[i]) < 2
    THEN [raised |-> TRUE, value |-> <<>>, groups |-> <<>>]
    ELSE [raised |-> FALSE,
          value |-> [i \in DOMAIN refs |-> PyItem(refs[i], 1) \o <<"!">> \o PyItem(refs[i], 2)],
          groups |-> [i \in DOMAIN refs |-> <<refs[i]>>]]

\* an except clause that lets the exception out
ExceptReraise(refs) == [raised |-> TRUE, value |-> <<>>, groups |-> <<>>]

\* lines 232-235
Except(refs) == Fallback(refs)

\* lines 157-235: the try statement, body being the outcome of its try block
TryExcept(refs, body) ==
    IF body.exc THEN Except(refs)
    ELSE [raised |-> FALSE, value |-> body.ranges, groups |-> body.groups]

compress_cell_references(refs) ==
    IF refs = <<>> THEN [raised |-> FALSE, value |-> <<>>, groups |-> <<>>]
    ELSE TryExcept(refs, TryBody(refs))

-----------------------------------------------------------------------------
(* How an output string is read: 'Sheet!Cell' is that one cell and         *)
(* 'Sheet!Start:End' every cell of the rectangle with corners Start, End.  *)

Sheet(x) == x.v[1]

Cell(x) == x.v[2]

ColOf(cell) == column_index_from_string(_cell_to_tuple(cell)[1])

RowOf(cell) == _cell_to_tuple(cell)[2]

\* the canonical text of a coordinate: column letters, then the row number
CellText(col, row) == get_column_letter(col) \o str(row)

WellFormedCell(cell) ==
    /\ ColumnNameValid(_cell_to_tuple(cell)[1])
    /\ RowOf(cell) >= 1
    /\ cell = CellText(ColOf(cell), RowOf(cell))

WellFormed(refs) == \A i \in DOMAIN refs : WellFormedCell(Cell(refs[i]))

\* the position of the last occurrence of character c in s, 0 when absent
LastIndexOf(s, c) == LastOf({i \in DOMAIN s : s[i] = c})

SheetPart(s) == SubSeq(s, 1, LastIndexOf(s, "!") - 1)

CellPart(s) == SubSeq(s, LastIndexOf(s, "!") + 1, Len(s))

Min(a, b) == IF a <= b THEN a ELSE b

Max(a, b) == IF a >= b THEN a ELSE b

RECURSIVE Flatten(_)
Flatten(ss) == IF ss = <<>> THEN <<>> ELSE Head(ss) \o Flatten(Tail(ss))

\* the cells one output string denotes, column by column
DenotedBy(s) ==
    LET sheet == SheetPart(s)
        cells == CellPart(s)
        colon == LastIndexOf(cells, ":")
    IN  IF colon = 0 THEN <<Pair(sheet, cells)>>
        ELSE LET a == SubSeq(cells, 1, colon - 1)
                 b == SubSeq(cells, colon + 1, Len(cells))
                 c1 == Min(ColOf(a), ColOf(b))
                 c2 == Max(ColOf(a), ColOf(b))
                 r1 == Min(RowOf(a), RowOf(b))
                 r2 == Max(RowOf(a), RowOf(b))
                 h == r2 - r1 + 1
             IN  [k \in 1..((c2 - c1 + 1) * h) |->
                    Pair(sheet, CellText(c1 + ((k - 1) \div h), r1 + ((k - 1) % h)))]

Denoted(strings) == Flatten([i \in DOMAIN strings |-> DenotedBy(strings[i])])

Count(s, x) == Cardinality({i \in DOMAIN s : s[i] = x})

SameMultiset(a, b) ==
    /\ Len(a) = Len(b)
    /\ \A x \in Range(a) \cup Range(b) : Count(a, x) = Count(b, x)

-----------------------------------------------------------------------------
(* The compressor on its own: every list of at most MaxLen locations. The   *)
(* first sheet holds MaxCol columns by MaxRow rows, one cell further right *)
(* and two cell texts whose letters name no column; the second sheet holds *)
(* the corner cells, so that a location of another sheet can equal one of  *)
(* the first sheet in its coordinates, or lie just below or right of it.   *)

MaxLen == 3

MaxCol == 2

MaxRow == 4

FirstSheet == <<"S", "1">>

SecondSheet == <<"S", "2">>

\* the grid, and the first cell one column further right: a row with a gap
Cells == {CellText(c, r) : c \in 1..MaxCol, r \in 1..MaxRow} \cup {CellText(MaxCol + 1, 1)}

\* no column letters; more letters than a column name has
MalformedCells == {<<"1">>, <<"A", "A", "A", "A", "1">>}

SecondSheetCells == {CellText(1, 1), CellText(1, 2), CellText(2, 1)}

Locations == {Pair(FirstSheet, c) : c \in Cells \cup MalformedCells}
             \cup {Pair(SecondSheet, c) : c \in SecondSheetCells}

Inputs == UNION {[1..n -> Locations] : n \in 0..MaxLen}

NoOutcome == [raised |-> FALSE, value |-> <<>>]

InitCompress ==
    /\ pc = "input"
    /\ references \in Inputs
    /\ result = NoOutcome
    /\ groups = <<>>
    /\ result2 = NoOutcome
    /\ config = <<>>
    /\ value = <<>>
    /\ dtype = <<>>
    /\ document = <<>>
    /\ output = NoOutcome

\* a call compress_cell_references(references)
Compress ==
    /\ pc = "input"
    /\ LET r == compress_cell_references(references)
       IN  /\ result' = [raised |-> r.raised, value |-> r.value]
           /\ groups' = r.groups
    /\ pc' = "compressed"
    /\ UNCHANGED <<references, result2, config, value, dtype, document, output>>

\* the output read back into locations and compressed again
Recompress ==
    /\ pc = "compressed"
    /\ ~result.raised
    /\ LET r == compress_cell_references(Denoted(result.value))
       IN  result2' = [raised |-> r.raised, value |-> r.value]
    /\ pc' = "recompressed"
    /\ UNCHANGED <<references, result, groups, config, value, dtype, document, output>>

NextCompress == Compress

SpecCompress == InitCompress /\ [][NextCompress]_vars

NextRoundTrip == Compress \/ Recompress

SpecRoundTrip == InitCompress /\ [][NextRoundTrip]_vars

-----------------------------------------------------------------------------
(* Claims about the compressor *)

NoDuplicates(refs) == \A i, j \in DOMAIN refs : i # j => refs[i] # refs[j]

\* C1: partition preservation. The multiset of cells the output strings denote
\* (a range read as the rectangle between its corners) is exactly the multiset
\* of input locations, whatever the input.
C1_PartitionPreservation ==
    pc = "compressed" =>
        /\ ~result.raised
        /\ SameMultiset(Denoted(result.value), references)

\* C2: round-trip stability. For well-formed locations, compressing the cells
\* that the output denotes gives the same output again.
C2_RoundTripStable ==
    (pc = "recompressed" /\ WellFormed(references)) => result2 = result

HasNoColumnLetters(cell) == SelectSeq(cell, isalpha) = <<>>

\* the letters of the cell text are not the name of a column
NamesNoColumn(cell) == ~ColumnNameValid(SelectSeq(cell, isalpha))

InternalError(refs) == \E i \in DOMAIN refs : NamesNoColumn(Cell(refs[i]))

\* C5: failure policy. The compressor never raises, and when the letters of a
\* location's cell text name no column (there are none, or too many) the output
\* is one 'Sheet!Cell' string per input location, in input order, denoting
\* exactly the input locations.
C5_FailurePolicy ==
    pc = "compressed" =>
        /\ ~result.raised
        /\ InternalError(references) =>
             /\ result.value = [i \in DOMAIN references |->
                                  Sheet(references[i]) \o <<"!">> \o Cell(references[i])]
             /\ SameMultiset(Denoted(result.value), references)

\* a list of three with the malformed cell last, behind a location of the second
\* sheet and one of the first: the fallback keeps that order, which is not sorted
C5_Witness ==
    /\ pc = "compressed"
    /\ Len(references) = 3
    /\ Sheet(references[1]) = SecondSheet
    /\ Sheet(references[2]) = FirstSheet
    /\ WellFormedCell(Cell(references[2]))
    /\ HasNoColumnLetters(Cell(references[3]))
    /\ Len(result.value) = 3

\* the maximal runs of consecutive numbers of a set K, as <<first, last>>
AxisRuns(K) ==
    {ab \in K \X K :
        /\ ab[1] <= ab[2]
        /\ \A k \in ab[1]..ab[2] : k \in K
        /\ (ab[1] - 1) \notin K
        /\ (ab[2] + 1) \notin K}

RECURSIVE AscendingRuns(_)
AscendingRuns(R) ==
    IF R = {} THEN <<>>
    ELSE LET first == CHOOSE ab \in R : \A cd \in R : ab[1] <= cd[1]
         IN  <<first>> \o AscendingRuns(R \ {first})

RunText(sheet, a, b) ==
    IF a = b THEN sheet \o <<"!">> \o a ELSE sheet \o <<"!">> \o a \o <<":">> \o b

SingleColumn(refs) ==
    /\ refs # <<>>
    /\ WellFormed(refs)
    /\ \A i \in DOMAIN refs :
          /\ Sheet(refs[i]) = Sheet(refs[1])
          /\ ColOf(Cell(refs[i])) = ColOf(Cell(refs[1]))

SingleRow(refs) ==
    /\ refs # <<>>
    /\ WellFormed(refs)
    /\ \A i \in DOMAIN refs :
          /\ Sheet(refs[i]) = Sheet(refs[1])
          /\ RowOf(Cell(refs[i])) = RowOf(Cell(refs[1]))

ExpectedColumnRuns(refs) ==
    LET col == ColOf(Cell(refs[1]))
        runs == AscendingRuns(AxisRuns({RowOf(Cell(refs[i])) : i \in DOMAIN refs}))
    IN  [k \in DOMAIN runs |->
           RunText(Sheet(refs[1]), CellText(col, runs[k][1]), CellText(col, runs[k][2]))]

ExpectedRowRuns(refs) ==
    LET row == RowOf(Cell(refs[1]))
        runs == AscendingRuns(AxisRuns({ColOf(Cell(refs[i])) : i \in DOMAIN refs}))
    IN  [k \in DOMAIN runs |->
           RunText(Sheet(refs[1]), CellText(runs[k][1], row), CellText(runs[k][2], row))]

\* C8: single-axis runs. A duplicate-free input within one column (or one row)
\* of one sheet, in any order, gives one string per maximal run of consecutive
\* rows (columns), ascending: 'Sheet!First:Last', or 'Sheet!Cell' when alone.
C8_SingleAxisRuns ==
    (pc = "compressed" /\ NoDuplicates(references)) =>
        /\ SingleColumn(references) =>
             ~result.raised /\ result.value = ExpectedColumnRuns(references)
        /\ SingleRow(references) =>
             ~result.raised /\ result.value = ExpectedRowRuns(references)

\* three cells of one column given out of order: a run of two and, behind a gap
\* of one row, a single cell
C8_Witness ==
    /\ pc = "compressed"
    /\ NoDuplicates(references)
    /\ SingleColumn(references)
    /\ Len(references) = 3
    /\ RowOf(Cell(references[1])) > RowOf(Cell(references[2]))
    /\ Len(result.value) = 2
    /\ LastIndexOf(result.value[1], ":") # 0
    /\ LastIndexOf(result.value[2], ":") = 0

\* C9: cross-sheet split. The references the scan puts behind one output string
\* all carry that string's sheet, the strings between them hold every input
\* reference once, and every sheet of the input is the sheet of some string.
C9_CrossSheetSplit ==
    pc = "compressed" =>
        /\ Len(groups) = Len(result.value)
        /\ SameMultiset(Flatten(groups), references)
        /\ \A g \in DOMAIN groups :
              /\ groups[g] # <<>>
              /\ \A m \in DOMAIN groups[g] :
                    Sheet(groups[g][m]) = SheetPart(result.value[g])
              /\ result.value[g] = RunText(Sheet(groups[g][1]), Cell(groups[g][1]),
                                           Cell(groups[g][Len(groups[g])]))
        /\ {SheetPart(result.value[i]) : i \in DOMAIN result.value}
             = {Sheet(references[i]) : i \in DOMAIN references}

\* A1 of one sheet and A2 of the other, adjacent by coordinates, in one input
C9_Witness ==
    /\ pc = "compressed"
    /\ \E i, j \in DOMAIN references :
          /\ references[i] = Pair(FirstSheet, CellText(1, 1))
          /\ references[j] = Pair(SecondSheet, CellText(1, 2))
    /\ Len(result.value) >= 2

\* the single cells and the runs within one column or one row, as sets of
\* locations, that lie inside the set S of locations
RunsWithin(S) ==
    {R \in SUBSET S :
        /\ R # {}
        /\ \A x, y \in R : Sheet(x) = Sheet(y)
        /\ \/ /\ \A x, y \in R : ColOf(Cell(x)) = ColOf(Cell(y))
              /\ \A x, y \in R : \A r \in RowOf(Cell(x))..RowOf(Cell(y)) :
                    \E z \in R : RowOf(Cell(z)) = r
           \/ /\ \A x, y \in R : RowOf(Cell(x)) = RowOf(Cell(y))
              /\ \A x, y \in R : \A c \in ColOf(Cell(x))..ColOf(Cell(y)) :
                    \E z \in R : ColOf(Cell(z)) = c}

IsCover(C, S) ==
    /\ UNION C = S
    /\ \A R1, R2 \in C : R1 # R2 => R1 \cap R2 = {}

\* C10: fewest ranges. For a duplicate-free input no list of single cells,
\* column runs and row runs denoting exactly the input locations is shorter
\* than the output.
C10_FewestRanges ==
    (pc = "compressed" /\ NoDuplicates(references) /\ WellFormed(references)) =>
        \A C \in SUBSET RunsWithin(Range(references)) :
            IsCover(C, Range(references)) => Cardinality(C) >= Len(result.value)

\* x before y in the order sheet, column number, row number
LocLess(x, y) ==
    \/ StrLess(Sheet(x), Sheet(y))
    \/ /\ Sheet(x) = Sheet(y)
       /\ \/ ColOf(Cell(x)) < ColOf(Cell(y))
          \/ ColOf(Cell(x)) = ColOf(Cell(y)) /\ RowOf(Cell(x)) < RowOf(Cell(y))

RECURSIVE Ascending(_)
Ascending(S) ==
    IF S = {} THEN <<>>
    ELSE LET m == CHOOSE x \in S : \A y \in S : x = y \/ LocLess(x, y)
         IN  <<m>> \o Ascending(S \ {m})

\* y is, on x's sheet, the cell directly below x or directly right of x
ChainLink(x, y) ==
    /\ Sheet(x) = Sheet(y)
    /\ \/ ColOf(Cell(x)) = ColOf(Cell(y)) /\ RowOf(Cell(y)) = RowOf(Cell(x)) + 1
       \/ RowOf(Cell(x)) = RowOf(Cell(y)) /\ ColOf(Cell(y)) = ColOf(Cell(x)) + 1

\* cutting the list s behind the positions of cuts leaves only chains
CutsIntoChains(s, cuts) ==
    \A i \in 1..(Len(s) - 1) : i \in cuts \/ ChainLink(s[i], s[i + 1])

\* C10 (amended): for a duplicate-free input the number of strings is the least
\* number of pieces into which the input, sorted by sheet, column and row, can
\* be cut so that in every piece each location is directly below or directly
\* right of the one before it.
C10_FewestChainPieces ==
    (pc = "compressed" /\ NoDuplicates(references) /\ WellFormed(references)
                       /\ references # <<>>) =>
        LET s == Ascending(Range(references))
            cutsets == {c \in SUBSET (1..(Len(s) - 1)) : CutsIntoChains(s, c)}
        IN  /\ \A c \in cutsets : Len(result.value) <= Cardinality(c) + 1
            /\ \E c \in cutsets : Len(result.value) = Cardinality(c) + 1

\* three strings for three locations that two ranges (a row run and a cell) cover
C10_Witness ==
    /\ pc = "compressed"
    /\ NoDuplicates(references)
    /\ WellFormed(references)
    /\ Len(references) = 3
    /\ Len(result.value) = 3
    /\ \E C \in SUBSET RunsWithin(Range(references)) :
          IsCover(C, Range(references)) /\ Cardinality(C) = 2

-----------------------------------------------------------------------------
(* Python's re, as recognize_data_type and datetime.strptime use it.  A     *)
(* regular expression is a tree:                                           *)
(*   <<"set", S>>  one character of S      <<"not", S>>  one outside S     *)
(*   <<"seq", <<r1, ..., rn>>>>            <<"alt", <<r1, ..., rn>>>>      *)
(*   <<"rep", r, lo, hi>>  r repeated lo to hi times (hi = -1: no limit)   *)
(*   <<"bol">>  ^                          <<"eol">>  $                    *)

Chr(c) == <<"set", {c}>>

Lit(chars) == <<"seq", [i \in DOMAIN chars |-> Chr(chars[i])]>>

\* a literal matched without regard to case (re.IGNORECASE)
LitIgnoreCase(chars) ==
    <<"seq", [i \in DOMAIN chars |->
                <<"set", {c \in UpperSet \cup LowerSet : upper(<<c>>) = upper(<<chars[i]>>)}
                         \cup (IF isalpha(chars[i]) THEN {} ELSE {chars[i]})>>]>>

Opt(r) == <<"rep", r, 0, 1>>

Star(r) == <<"rep", r, 0, -1>>

Plus(r) == <<"rep", r, 1, -1>>

Digit == <<"set", DigitSet>>

\* \s and \S
Space == <<"set", WhitespaceSet>>

NonSpace == <<"not", WhitespaceSet>>

RECURSIVE Ends(_, _, _), EndsSeq(_, _, _), EndsRep(_, _, _, _, _, _, _)

\* the positions j at which a match of re that starts behind position i of s can end
Ends(re, s, i) ==
    CASE re[1] = "set" -> IF i < Len(s) /\ s[i + 1] \in re[2] THEN {i + 1} ELSE {}
      [] re[1] = "not" -> IF i < Len(s) /\ s[i + 1] \notin re[2] THEN {i + 1} ELSE {}
      [] re[1] = "bol" -> IF i = 0 THEN {i} ELSE {}
      [] re[1] = "eol" -> IF i = Len(s) \/ (i = Len(s) - 1 /\ s[Len(s)] = "\n")
                          THEN {i} ELSE {}
      [] re[1] = "seq" -> EndsSeq(re[2], s, {i})
      [] re[1] = "alt" -> UNION {Ends(re[2][k], s, i) : k \in DOMAIN re[2]}
      [] re[1] = "rep" -> EndsRep(re[2], re[3], re[4], s, {i}, 0, {})

EndsSeq(rs, s, from) ==
    IF rs = <<>> \/ from = {} THEN from
    ELSE EndsSeq(Tail(rs), s, UNION {Ends(Head(rs), s, i) : i \in from})

\* cur: where n repetitions can end; acc: where lo..n-1 repetitions can end
EndsRep(r, lo, hi, s, cur, n, acc) ==
    LET acc2 == IF n >= lo THEN acc \cup cur ELSE acc
    IN  IF cur = {} \/ n = hi THEN acc2
        ELSE LET nxt == UNION {Ends(r, s, i) : i \in cur}
             IN  IF n >= lo /\ nxt \subseteq acc2 THEN acc2
                 ELSE EndsRep(r, lo, hi, s, nxt, n + 1, acc2)

\* re.match(pattern, string) is not None: a match that starts at the beginning
\* of the string; it need not reach the end
re_match(pattern, string) == Ends(pattern, string, 0) # {}

-----------------------------------------------------------------------------
(* __init__: the patterns *)

LetterClass == <<"set", UpperSet \cup LowerSet>>

AlnumSet == UpperSet \cup LowerSet \cup DigitSet

\* the characters of [$€£¥]; "EUR", "GBP" and "JPY" stand for the characters
\* EURO SIGN, POUND SIGN and YEN SIGN
CurrencySigns == {"$", "EUR", "GBP", "JPY"}

\* -?\d+\.?\d*
SignedDecimal == <<"seq", <<Opt(Chr("-")), Plus(Digit), Opt(Chr(".")), Star(Digit)>>>>

url_pattern ==
    <<"seq", << <<"bol">>,
                <<"alt", << <<"seq", <<Lit(<<"h","t","t","p">>), Opt(Chr("s")),
                                       Lit(<<":","/","/">>)>>>>,
                            Lit(<<"w","w","w",".">>),
                            Lit(<<"f","t","p",":","/","/">>),
                            Lit(<<"f","i","l","e",":","/","/">>) >>>>,
                Plus(<<"set", AlnumSet \cup {"-", "."}>>),
                Chr("."),
                <<"rep", LetterClass, 2, -1>>,
                Opt(<<"seq", <<Chr(":"), Plus(Digit)>>>>),
                Opt(<<"seq", <<Chr("/"), Star(NonSpace)>>>>),
                <<"eol">> >>>>

year_pattern ==
    <<"seq", << <<"bol">>, <<"set", {"1", "2"}>>, <<"rep", Digit, 3, 3>>, <<"eol">> >>>>

integer_pattern ==
    <<"seq", << <<"bol">>, Opt(Chr("-")), Plus(Digit), <<"eol">> >>>>

percentage_pattern ==
    <<"seq", << <<"bol">>, SignedDecimal, Chr("%"), <<"eol">> >>>>

scientific_pattern ==
    <<"seq", << <<"bol">>, SignedDecimal, <<"set", {"e", "E"}>>,
                Opt(<<"set", {"+", "-"}>>), Plus(Digit), <<"eol">> >>>>

float_pattern ==
    <<"seq", << <<"bol">>, Opt(Chr("-")), Star(Digit), Chr("."), Plus(Digit), <<"eol">> >>>>

currency_pattern ==
    <<"alt", << <<"seq", << <<"bol">>, <<"set", CurrencySigns>>, Star(Space),
                            SignedDecimal, <<"eol">> >>>>,
                <<"seq", << <<"bol">>, SignedDecimal, Star(Space),
                            <<"set", CurrencySigns>>, <<"eol">> >>>> >>>>

email_pattern ==
    <<"seq", << <<"bol">>,
                Plus(<<"set", AlnumSet \cup {".", "_", "%", "+", "-"}>>),
                Chr("@"),
                Plus(<<"set", AlnumSet \cup {".", "-"}>>),
                Chr("."),
                <<"rep", LetterClass, 2, -1>>,
                <<"eol">> >>>>

\* lines 61-70, in the order of the dict
default_patterns ==
    << [name |-> <<"u","r","l">>, regex |-> url_pattern],
       [name |-> <<"y","e","a","r">>, regex |-> year_pattern],
       [name |-> <<"i","n","t","e","g","e","r">>, regex |-> integer_pattern],
       [name |-> <<"p","e","r","c","e","n","t","a","g","e">>, regex |-> percentage_pattern],
       [name |-> <<"s","c","i","e","n","t","i","f","i","c">>, regex |-> scientific_pattern],
       [name |-> <<"f","l","o","a","t">>, regex |-> float_pattern],
       [name |-> <<"c","u","r","r","e","n","c","y">>, regex |-> currency_pattern],
       [name |-> <<"e","m","a","i","l">>, regex |-> email_pattern] >>

\* {**a, **b} for two dicts kept as lists of items: a key of b that a holds keeps
\* its place and takes b's value, the other keys of b follow in b's order
RECURSIVE DictMerge(_, _)
DictMerge(a, b) ==
    IF b = <<>> THEN a
    ELSE LET item == Head(b)
             at == {i \in DOMAIN a : a[i].name = item.name}
         IN  DictMerge(IF at = {} THEN Append(a, item)
                       ELSE [i \in DOMAIN a |-> IF i \in at THEN item ELSE a[i]],
                       Tail(b))

\* line 71
_patterns(cfg) == DictMerge(default_patterns, cfg.custom_patterns)

\* lines 74-87
default_date_patterns ==
    << <<"%","Y","-","%","m","-","%","d">>,
       <<"%","d","-","%","m","-","%","Y">>,
       <<"%","m","-","%","d","-","%","Y">>,
       <<"%","Y","/","%","m","/","%","d">>,
       <<"%","d","/","%","m","/","%","Y">>,
       <<"%","m","/","%","d","/","%","Y">>,
       <<"%","d",".","%","m",".","%","Y">>,
       <<"%","Y",".","%","m",".","%","d">>,
       <<"%","b"," ","%","d",","," ","%","Y">>,
       <<"%","B"," ","%","d",","," ","%","Y">>,
       <<"%","d"," ","%","b"," ","%","Y">>,
       <<"%","d"," ","%","B"," ","%","Y">> >>

\* lines 88-93
default_time_patterns ==
    << <<"%","H",":","%","M">>,
       <<"%","H",":","%","M",":","%","S">>,
       <<"%","I",":","%","M"," ","%","p">>,
       <<"%","I",":","%","M",":","%","S"," ","%","p">> >>

\* "custom or default"
_date_patterns(cfg) ==
    IF cfg.custom_date_patterns # <<>> THEN cfg.custom_date_patterns
    ELSE default_date_patterns

_time_patterns(cfg) ==
    IF cfg.custom_time_patterns # <<>> THEN cfg.custom_time_patterns
    ELSE default_time_patterns

-----------------------------------------------------------------------------
(* datetime.strptime(string, format) with the formats of lines 74-93: the   *)
(* format becomes a regular expression, directive by directive, that must  *)
(* match the whole string, and the fields found must make a date.          *)

MonthNames ==
    << <<"j","a","n","u","a","r","y">>, <<"f","e","b","r","u","a","r","y">>,
       <<"m","a","r","c","h">>, <<"a","p","r","i","l">>, <<"m","a","y">>,
       <<"j","u","n","e">>, <<"j","u","l","y">>, <<"a","u","g","u","s","t">>,
       <<"s","e","p","t","e","m","b","e","r">>, <<"o","c","t","o","b","e","r">>,
       <<"n","o","v","e","m","b","e","r">>, <<"d","e","c","e","m","b","e","r">> >>

DigitsIn(lo, hi) == <<"set", {DigitChars[k + 1] : k \in lo..hi}>>

\* the regular expressions of the numeric directives
DirectiveRegex ==
    [d \in {"d", "H", "I", "m", "M", "S", "Y"} |->
       CASE d = "d" -> <<"alt", << <<"seq", <<Chr("3"), DigitsIn(0, 1)>>>>,
                                   <<"seq", <<DigitsIn(1, 2), Digit>>>>,
                                   <<"seq", <<Chr("0"), DigitsIn(1, 9)>>>>,
                                   DigitsIn(1, 9),
                                   <<"seq", <<Chr(" "), DigitsIn(1, 9)>>>> >>>>
         [] d = "H" -> <<"alt", << <<"seq", <<Chr("2"), DigitsIn(0, 3)>>>>,
                                   <<"seq", <<DigitsIn(0, 1), Digit>>>>,
                                   Digit >>>>
         [] d \in {"I", "m"} -> <<"alt", << <<"seq", <<Chr("1"), DigitsIn(0, 2)>>>>,
                                            <<"seq", <<Chr("0"), DigitsIn(1, 9)>>>>,
                                            DigitsIn(1, 9) >>>>
         [] d = "M" -> <<"alt", << <<"seq", <<DigitsIn(0, 5), Digit>>>>, Digit >>>>
         [] d = "S" -> <<"alt", << <<"seq", <<Chr("6"), DigitsIn(0, 1)>>>>,
                                   <<"seq", <<DigitsIn(0, 5), Digit>>>>,
                                   Digit >>>>
         [] d = "Y" -> <<"rep", Digit, 4, 4>>]

\* %b, %B and %p: the names of the C locale, in any case
AbbreviatedMonthRegex == [k \in 1..12 |-> LitIgnoreCase(SubSeq(MonthNames[k], 1, 3))]

FullMonthRegex == [k \in 1..12 |-> LitIgnoreCase(MonthNames[k])]

AmPmRegex == <<"alt", <<LitIgnoreCase(<<"a","m">>), LitIgnoreCase(<<"p","m">>)>>>>

\* where directive d, read behind position i of s, can end, with the number read
DirectiveMatches(d, s, i) ==
    CASE d = "b" -> UNION {{<<j, k>> : j \in Ends(AbbreviatedMonthRegex[k], s, i)} : k \in 1..12}
      [] d = "B" -> UNION {{<<j, k>> : j \in Ends(FullMonthRegex[k], s, i)} : k \in 1..12}
      [] d = "p" -> {<<j, 0>> : j \in Ends(AmPmRegex, s, i)}
      [] OTHER -> {<<j, int(SelectSeq(SubSeq(s, i + 1, j), isdigit))>>
                   : j \in Ends(DirectiveRegex[d], s, i)}

\* the field of the result that a directive sets
FieldOf(d) == CASE d \in {"b", "B", "m"} -> "m"
                [] d \in {"Y", "d", "S"} -> d
                [] OTHER -> "other"

\* the parses of format[k..] that continue the partial parses of ps
RECURSIVE ParseFormat(_, _, _, _)
ParseFormat(format, k, s, ps) ==
    IF k > Len(format) \/ ps = {} THEN ps
    ELSE IF format[k] = "%"
    THEN ParseFormat(format, k + 2, s,
            UNION {{[p EXCEPT !.pos = jv[1], ![FieldOf(format[k + 1])] = jv[2]]
                    : jv \in DirectiveMatches(format[k + 1], s, p.pos)} : p \in ps})
    ELSE IF format[k] \in WhitespaceSet
    THEN ParseFormat(format, k + 1, s,
            UNION {{[p EXCEPT !.pos = j] : j \in Ends(Plus(Space), s, p.pos)} : p \in ps})
    ELSE ParseFormat(format, k + 1, s,
            UNION {{[p EXCEPT !.pos = j] : j \in Ends(Chr(format[k]), s, p.pos)} : p \in ps})

IsLeapYear(y) == y % 4 = 0 /\ (y % 100 # 0 \/ y % 400 = 0)

DaysInMonth(y, m) ==
    IF m = 2 THEN (IF IsLeapYear(y) THEN 29 ELSE 28)
    ELSE IF m \in {4, 6, 9, 11} THEN 30 ELSE 31

\* datetime.strptime(s, format) returns rather than raising ValueError
strptime_ok(s, format) ==
    \E p \in ParseFormat(format, 1, s,
                         {[pos |-> 0, Y |-> 1900, m |-> 1, d |-> 1, S |-> 0, other |-> 0]}) :
        /\ p.pos = Len(s)
        /\ p.Y >= 1
        /\ p.d <= DaysInMonth(p.Y, p.m)
        /\ p.S <= 59

-----------------------------------------------------------------------------
(* recognize_data_type *)

\* A cell value: [t |-> "none"], [t |-> "str", v |-> chars] or [t |-> "int", v |-> n]
None == [t |-> "none"]

PyInt(n) == [t |-> "int", v |-> n]

\* str(value)
py_str(val) ==
    IF val.t = "str" THEN val.v
    ELSE IF val.v < 0 THEN <<"-">> \o str(0 - val.v) ELSE str(val.v)

RECURSIVE lstrip(_)
lstrip(s) == IF s # <<>> /\ s[1] \in WhitespaceSet THEN lstrip(Tail(s)) ELSE s

RECURSIVE rstrip(_)
rstrip(s) == IF s # <<>> /\ s[Len(s)] \in WhitespaceSet
             THEN rstrip(SubSeq(s, 1, Len(s) - 1)) ELSE s

strip(s) == rstrip(lstrip(s))

Empty == <<"E","m","p","t","y">>

Others == <<"O","t","h","e","r","s">>

DateTag == <<"[","D","A","T","E","]">>

TimeTag == <<"[","T","I","M","E","]">>

\* line 117
Bracketed(pattern_name) == <<"[">> \o upper(pattern_name) \o <<"]">>

\* line 116: the test a pattern must pass
PatternMatches(pattern, value_str) == re_match(pattern, value_str)

\* lines 115-117: the patterns that match, in the order of the dict
MatchingPatterns(cfg, value_str) ==
    SelectSeq(_patterns(cfg), LAMBDA p : PatternMatches(p.regex, value_str))

recognize_data_type(cfg, val) ==
    IF val.t = "none" \/ (val.t = "str" /\ strip(val.v) = <<>>) THEN Empty
    ELSE LET value_str == strip(py_str(val))
             hits == MatchingPatterns(cfg, value_str)
         IN  IF hits # <<>> THEN Bracketed(hits[1].name)
             ELSE IF \E k \in DOMAIN _date_patterns(cfg) :
                        strptime_ok(value_str, _date_patterns(cfg)[k])
             THEN DateTag
             ELSE IF \E k \in DOMAIN _time_patterns(cfg) :
                        strptime_ok(value_str, _time_patterns(cfg)[k])
             THEN TimeTag
             ELSE Others

-----------------------------------------------------------------------------
(* _process_cells.  A dict is a list of items [key, val] in insertion order. *)

HasKey(d, key) == \E i \in DOMAIN d : d[i].key = key

Get(d, key) == d[CHOOSE i \in DOMAIN d : d[i].key = key].val

\* d[key].append(item) on a defaultdict(list)
DictAppend(d, key, item) ==
    IF HasKey(d, key)
    THEN [i \in DOMAIN d |-> IF d[i].key = key
                             THEN [d[i] EXCEPT !.val = Append(@, item)] ELSE d[i]]
    ELSE Append(d, [key |-> key, val |-> <<item>>])

\* d[key].extend(items) on a defaultdict(list)
DictExtend(d, key, items) ==
    IF HasKey(d, key)
    THEN [i \in DOMAIN d |-> IF d[i].key = key
                             THEN [d[i] EXCEPT !.val = @ \o items] ELSE d[i]]
    ELSE Append(d, [key |-> key, val |-> items])

\* The cells argument: [kind |-> "rows", rows |-> rows of cell objects
\* [value, coordinate]] from openpyxl's ws.rows, or [kind |-> "list", rows |->
\* rows of values] from pyexcel_ods and csv.
\* The cells in the order the two loops visit them, each with the reference text
\* the loop gives it: cell.coordinate (line 264) or column letter and row index
\* (lines 273-274).  The type tests of lines 257 and 268 are taken as the branch
\* the argument's shape selects.
VisitedCells(cells) ==
    Flatten([r \in DOMAIN cells.rows |->
               [c \in DOMAIN cells.rows[r] |->
                  IF cells.kind = "rows"
                  THEN [value |-> cells.rows[r][c].value,
                        cell_ref |-> cells.rows[r][c].coordinate]
                  ELSE [value |-> cells.rows[r][c],
                        cell_ref |-> get_column_letter(c) \o str(r)]]])

\* lines 262-263 and 275-276: the key under which an unrecognised cell is put
OthersKey(val) == py_str(val)

\* lines 260-267 and 271-278: one cell put into grouped_data
PutTyped(grouped_data, sheet_name, cell, cell_type) ==
    IF cell_type = Others
    THEN DictAppend(grouped_data, OthersKey(cell.value), Pair(sheet_name, cell.cell_ref))
    ELSE IF cell_type # Empty
    THEN DictAppend(grouped_data, cell_type, Pair(sheet_name, cell.cell_ref))
    ELSE grouped_data

PutCell(cfg, grouped_data, sheet_name, cell) ==
    IF cell.value.t = "none" THEN grouped_data
    ELSE PutTyped(grouped_data, sheet_name, cell, recognize_data_type(cfg, cell.value))

RECURSIVE PutCells(_, _, _, _)
PutCells(cfg, grouped_data, sheet_name, visited) ==
    IF visited = <<>> THEN grouped_data
    ELSE PutCells(cfg, PutCell(cfg, grouped_data, sheet_name, Head(visited)),
                  sheet_name, Tail(visited))

\* lines 255-278: grouped_data when the loops end
GroupedData(cfg, cells, sheet_name) == PutCells(cfg, <<>>, sheet_name, VisitedCells(cells))

\* lines 280-283
CompressEach(grouped_data) ==
    [i \in DOMAIN grouped_data |->
       [key |-> grouped_data[i].key,
        val |-> compress_cell_references(grouped_data[i].val).value]]

_process_cells(cfg, cells, sheet_name) == CompressEach(GroupedData(cfg, cells, sheet_name))

-----------------------------------------------------------------------------
(* The back-ends.  A document is a list of sheets [name, matrix]; a matrix  *)
(* is a list of rows of cell values.                                       *)

\* ws.rows of openpyxl: cell objects that carry their value and coordinate
WorksheetRows(matrix) ==
    [kind |-> "rows",
     rows |-> [r \in DOMAIN matrix |->
                 [c \in DOMAIN matrix[r] |->
                    [value |-> matrix[r][c], coordinate |-> get_column_letter(c) \o str(r)]]]]

\* a sheet of pyexcel_ods.get_data: rows of values, an empty cell being ''
OdsSheet(matrix) ==
    [kind |-> "list",
     rows |-> [r \in DOMAIN matrix |->
                 [c \in DOMAIN matrix[r] |->
                    IF matrix[r][c].t = "none" THEN Str(<<>>) ELSE matrix[r][c]]]]

\* list(csv.reader(...)): rows of str
CsvRows(matrix) ==
    [kind |-> "list",
     rows |-> [r \in DOMAIN matrix |->
                 [c \in DOMAIN matrix[r] |->
                    IF matrix[r][c].t = "none" THEN Str(<<>>) ELSE Str(py_str(matrix[r][c]))]]]

\* lines 307-311: one sheet's dict merged into result
RECURSIVE MergeSheetData(_, _)
MergeSheetData(res, sheet_data) ==
    IF sheet_data = <<>> THEN res
    ELSE MergeSheetData(DictExtend(res, Head(sheet_data).key, Head(sheet_data).val),
                        Tail(sheet_data))

\* lines 300-311
RECURSIVE ExcelSheets(_, _, _)
ExcelSheets(cfg, doc, res) ==
    IF doc = <<>> THEN res
    ELSE ExcelSheets(cfg, Tail(doc),
            MergeSheetData(res, _process_cells(cfg, WorksheetRows(Head(doc).matrix),
                                               Head(doc).name)))

parse_excel(cfg, doc) == [raised |-> FALSE, value |-> ExcelSheets(cfg, doc, <<>>)]

\* lines 340-344
RECURSIVE OdsSheets(_, _, _)
OdsSheets(cfg, doc, grouped_data) ==
    IF doc = <<>> THEN grouped_data
    ELSE OdsSheets(cfg, Tail(doc),
            MergeSheetData(grouped_data, _process_cells(cfg, OdsSheet(Head(doc).matrix),
                                                        Head(doc).name)))

\* lines 346-349 and 387-390: the strings of grouped_data go through
\* compress_cell_references as its references
Recompressed(grouped_data, outcome) ==
    IF \E i \in DOMAIN outcome : outcome[i].raised
    THEN [raised |-> TRUE, value |-> <<>>]
    ELSE [raised |-> FALSE,
          value |-> [i \in DOMAIN grouped_data |->
                       [key |-> grouped_data[i].key, val |-> outcome[i].value]]]

CompressAgain(grouped_data) ==
    Recompressed(grouped_data,
                 [i \in DOMAIN grouped_data |->
                    compress_cell_references([k \in DOMAIN grouped_data[i].val |->
                                                Str(grouped_data[i].val[k])])])

parse_ods(cfg, doc) == CompressAgain(OdsSheets(cfg, doc, <<>>))

Sheet1 == <<"S","h","e","e","t","1">>

\* lines 382-390
parse_csv(cfg, matrix) ==
    CompressAgain(MergeSheetData(<<>>, _process_cells(cfg, CsvRows(matrix), Sheet1)))

-----------------------------------------------------------------------------
(* The classifier on its own: every string of at most MaxValueLen           *)
(* characters of ValueChars, some longer texts and numbers, under the      *)
(* default configuration and under custom patterns.                        *)

MaxValueLen == 4

ValueChars == {"1", "9", "X", ".", " ", ":"}

SampleTexts ==
    { <<"1","9","9","9","-","1","-","9">>,
      <<"9","9","-","1","-","1","9","9","9">>,
      <<"9",".","1","1",".","1","9","9","9">>,
      <<"1","1","/","9","/","1","9","9","9">>,
      <<"1",":","1","9",":","1","9">>,
      <<"1","9","%">>,
      <<"1","e","9">>,
      <<"$","1","9">>,
      <<"x","@","x",".","i","o">>,
      <<"w","w","w",".","x",".","i","o">>,
      <<"X","1","9","9","9">>,
      <<"X","1","9","-","1","9">> }

Values ==
    {Str(s) : s \in UNION {[1..n -> ValueChars] : n \in 0..MaxValueLen} \cup SampleTexts}
    \cup {None, PyInt(19), PyInt(1999), PyInt(-9)}

DefaultConfig ==
    [custom_patterns |-> <<>>, custom_date_patterns |-> <<>>, custom_time_patterns |-> <<>>]

\* ^X\d+$
AnchoredCode ==
    [name |-> <<"c","o","d","e">>,
     regex |-> <<"seq", << <<"bol">>, Chr("X"), Plus(Digit), <<"eol">> >>>>]

\* X\d+
UnanchoredCode ==
    [name |-> <<"c","o","d","e">>, regex |-> <<"seq", <<Chr("X"), Plus(Digit)>>>>]

\* ^19\d{2}$ under the name of a default pattern
NarrowYear ==
    [name |-> <<"y","e","a","r">>,
     regex |-> <<"seq", << <<"bol">>, Lit(<<"1","9">>), <<"rep", Digit, 2, 2>>, <<"eol">> >>>>]

Configs ==
    { DefaultConfig,
      [DefaultConfig EXCEPT !.custom_patterns = <<AnchoredCode>>],
      [DefaultConfig EXCEPT !.custom_patterns = <<UnanchoredCode>>],
      [DefaultConfig EXCEPT !.custom_patterns = <<AnchoredCode, NarrowYear>>],
      [DefaultConfig EXCEPT !.custom_date_patterns = << <<"%","d",".","%","m">> >>,
                            !.custom_time_patterns = << <<"%","H",".","%","M">> >>] }

InitClassify ==
    /\ pc = "value"
    /\ config \in Configs
    /\ value \in Values
    /\ dtype = <<>>
    /\ references = <<>>
    /\ result = NoOutcome
    /\ groups = <<>>
    /\ result2 = NoOutcome
    /\ document = <<>>
    /\ output = NoOutcome

\* a call recognize_data_type(value)
Recognize ==
    /\ pc = "value"
    /\ dtype' = recognize_data_type(config, value)
    /\ pc' = "recognized"
    /\ UNCHANGED <<references, result, groups, result2, config, value, document, output>>

NextClassify == Recognize

SpecClassify == InitClassify /\ [][NextClassify]_vars

-----------------------------------------------------------------------------
(* The aggregators: documents of one or two sheets of MaxSheetRows rows and *)
(* two columns with at most MaxFilled cells that are not empty.            *)

MaxSheetRows == 2

MaxFilled == 3

DocCols == 1..2

DataSheet == <<"D","a","t","a">>

LogSheet == <<"L","o","g">>

SheetOrders == {<<DataSheet>>, <<LogSheet>>, <<DataSheet, LogSheet>>, <<LogSheet, DataSheet>>}

DocValues == {PyInt(7), Str(<<"x">>), Str(<<" ", "x">>)}

\* the places of the document's cells: <<sheet index, row, column>>
Places(order) == (DOMAIN order) \X (1..MaxSheetRows) \X DocCols

\* the document with the sheets of order and the values of filled, a function
\* from some places to values, the other cells being empty
MakeDocument(order, filled) ==
    [k \in DOMAIN order |->
       [name |-> order[k],
        matrix |-> [r \in 1..MaxSheetRows |->
                      [c \in DocCols |->
                         IF <<k, r, c>> \in DOMAIN filled THEN filled[<<k, r, c>>]
                         ELSE None]]]]

InitParse ==
    /\ pc = "document"
    /\ \E order \in SheetOrders :
         \E F \in {P \in SUBSET Places(order) : Cardinality(P) <= MaxFilled} :
           \E filled \in [F -> DocValues] :
              document = MakeDocument(order, filled)
    /\ config = DefaultConfig
    /\ output = NoOutcome
    /\ value = <<>>
    /\ dtype = <<>>
    /\ references = <<>>
    /\ result = NoOutcome
    /\ groups = <<>>
    /\ result2 = NoOutcome

ParseExcel ==
    /\ pc = "document"
    /\ output' = parse_excel(config, document)
    /\ pc' = "excel"
    /\ UNCHANGED <<references, result, groups, result2, config, value, dtype, document>>

ParseOds ==
    /\ pc = "document"
    /\ output' = parse_ods(config, document)
    /\ pc' = "ods"
    /\ UNCHANGED <<references, result, groups, result2, config, value, dtype, document>>

\* a CSV file is one grid
ParseCsv ==
    /\ pc = "document"
    /\ Len(document) = 1
    /\ output' = parse_csv(config, document[1].matrix)
    /\ pc' = "csv"
    /\ UNCHANGED <<references, result, groups, result2, config, value, dtype, document>>

NextExcel == ParseExcel

SpecExcel == InitParse /\ [][NextExcel]_vars

NextParse == ParseExcel \/ ParseOds \/ ParseCsv

SpecParse == InitParse /\ [][NextParse]_vars

-----------------------------------------------------------------------------
(* Claims about the classifier *)

\* pattern matches the whole of s, not only a prefix of it
FullMatch(pattern, s) == Len(s) \in Ends(pattern, s, 0)

FullyMatching(cfg, s) == SelectSeq(_patterns(cfg), LAMBDA p : FullMatch(p.regex, s))

PatternTags(cfg) == {Bracketed(_patterns(cfg)[k].name) : k \in DOMAIN _patterns(cfg)}

NonEmptyValue(val) == val.t # "none" /\ strip(py_str(val)) # <<>>

\* C6: classifier precedence. For a non-empty value the result is the bracketed
\* upper-cased name of the first pattern, defaults first and the caller's added
\* patterns behind them, that matches the whole trimmed string; a match of a
\* prefix only does not count. Only when no pattern matches the whole string is
\* the result [DATE] for a parsing date format, and only when none parses [TIME]
\* for a parsing time format; otherwise it is no pattern's tag.
C6_ClassifierPrecedence ==
    (pc = "recognized" /\ NonEmptyValue(value)) =>
        LET s == strip(py_str(value))
            full == FullyMatching(config, s)
        IN  IF full # <<>> THEN dtype = Bracketed(full[1].name)
            ELSE IF \E k \in DOMAIN _date_patterns(config) :
                       strptime_ok(s, _date_patterns(config)[k])
            THEN dtype = DateTag
            ELSE IF \E k \in DOMAIN _time_patterns(config) :
                       strptime_ok(s, _time_patterns(config)[k])
            THEN dtype = TimeTag
            ELSE dtype \notin PatternTags(config) \cup {DateTag, TimeTag}

-----------------------------------------------------------------------------
(* Claims about the aggregators *)

\* the rows handed to _process_cells for one sheet by the back-end that ended at pc
SheetCells(kind, matrix) ==
    CASE kind = "excel" -> WorksheetRows(matrix)
      [] kind = "ods" -> OdsSheet(matrix)
      [] kind = "csv" -> CsvRows(matrix)

\* the name under which the back-end hands sheet k of the document on
SheetName(kind, doc, k) == IF kind = "csv" THEN Sheet1 ELSE doc[k].name

\* the location lists of all sheets merged per category, in sheet-scan order
RECURSIVE MergedBuckets(_, _, _, _, _)
MergedBuckets(cfg, kind, doc, k, res) ==
    IF k > Len(doc) THEN res
    ELSE MergedBuckets(cfg, kind, doc, k + 1,
            MergeSheetData(res, GroupedData(cfg, SheetCells(kind, doc[k].matrix),
                                            SheetName(kind, doc, k))))

Parsed == pc \in {"excel", "ods", "csv"}

IsCellText(cell) ==
    \E n \in 1..(Len(cell) - 1) :
        /\ \A i \in 1..n : cell[i] \in UpperSet
        /\ \A i \in (n + 1)..Len(cell) : cell[i] \in DigitSet

\* s is 'Sheet!Cell' or 'Sheet!Cell:Cell' with a sheet of names and cells of bucket
InGrammar(s, names, bucket) ==
    LET sheet == SheetPart(s)
        cells == CellPart(s)
        colon == LastIndexOf(cells, ":")
        ends == IF colon = 0 THEN {cells}
                ELSE {SubSeq(cells, 1, colon - 1), SubSeq(cells, colon + 1, Len(cells))}
    IN  /\ LastIndexOf(s, "!") # 0
        /\ sheet \in names
        /\ \A cell \in ends : IsCellText(cell) /\ Pair(sheet, cell) \in Range(bucket)

Unrecognised(cfg, kind, doc) ==
    {v \in {c.value : c \in UNION {Range(VisitedCells(SheetCells(kind, doc[k].matrix)))
                                   : k \in DOMAIN doc}} :
        recognize_data_type(cfg, v) = Others}

=============================================================================
